---- MODULE Spec2Model ----
(***************************************************************************)
(* SuperBowl-Ad-Pulse: the scoring engine (backend/core/scoring.py), the   *)
(* decision layer (backend/core/decision.py), the perception and creative  *)
(* services (backend/services/gemini.py, groq.py) and the orchestration of *)
(* one segment analysis (backend/api/routes.py) over the SQLite store      *)
(* (backend/db).                                                           *)
(*                                                                         *)
(* Number representation: a score (a Python float) is an integer number of *)
(* thousandths, a confidence is an integer number of hundredths. Strings   *)
(* are TLA+ strings; lower(), strip(), replace() and the substring test    *)
(* are computed character by character.                                    *)
(***************************************************************************)
EXTENDS Integers, Sequences, FiniteSets, TLC

VARIABLES
    env,          \* os.environ: which API keys are set
    video_uri,    \* _state["video_uri"]
    uploading,    \* _state["uploading"]
    upc,          \* upload_video: position of each upload request
    since_reset,  \* history: the uploads accepted since the last reset_all
    events,       \* table "events"
    ads,          \* table "ads"
    pc,           \* analyze_segment: position of each request
    request,      \* analyze_segment: the AnalyzeSegmentRequest
    analysis,     \* analyze_segment: local "analysis" (GeminiAnalysisResult)
    scored,       \* analyze_segment: locals "score", "score_reasons"
    decision,     \* analyze_segment: local "decision"
    event,        \* analyze_segment: local "event" (the ORM object)
    ad_result,    \* analyze_segment: local "ad_result" (AdGenerationResult)
    calls,        \* calls each request has issued to the two collaborators
    raised,       \* the exception a request ended with
    result,       \* the AnalysisResult a request returned
    call,         \* a direct call of a pure function (scoring, decision)
    ret           \* what that call returned

vars == <<env, video_uri, uploading, upc, since_reset, events, ads, pc, request, analysis,
          scored, decision, event, ad_result, calls, raised, result, call,
          ret>>

None == "None"

-----------------------------------------------------------------------------
(* Bounds of the model.                                                    *)

MaxRequests == 2
MaxUploads == 3

Requests == 1..MaxRequests
Uploads == 1..MaxUploads

-----------------------------------------------------------------------------
(* Python string methods.                                                  *)

UpperLetters == "ABCDEFGHIJKLMNOPQRSTUVWXYZ"
LowerLetters == "abcdefghijklmnopqrstuvwxyz"

CharAt(s, i) == SubSeq(s, i, i)

LowerChar(c) ==
    IF \E i \in 1..Len(UpperLetters) : CharAt(UpperLetters, i) = c
    THEN CharAt(LowerLetters,
                CHOOSE i \in 1..Len(UpperLetters) : CharAt(UpperLetters, i) = c)
    ELSE c

RECURSIVE lower(_)
lower(s) ==
    IF Len(s) = 0 THEN ""
    ELSE LowerChar(CharAt(s, 1)) \o lower(SubSeq(s, 2, Len(s)))

\* Python's  k in s  on strings
Contains(s, k) ==
    \E i \in 1..(Len(s) - Len(k) + 1) : SubSeq(s, i, i + Len(k) - 1) = k

RECURSIVE strip(_)
strip(s) ==
    IF Len(s) = 0 THEN ""
    ELSE IF CharAt(s, 1) = " " THEN strip(SubSeq(s, 2, Len(s)))
    ELSE IF CharAt(s, Len(s)) = " " THEN strip(SubSeq(s, 1, Len(s) - 1))
    ELSE s

RECURSIVE replace_space(_)
replace_space(s) ==
    IF Len(s) = 0 THEN ""
    ELSE (IF CharAt(s, 1) = " " THEN "_" ELSE CharAt(s, 1))
             \o replace_space(SubSeq(s, 2, Len(s)))

RECURSIVE join(_, _)
join(sep, parts) ==
    IF Len(parts) = 0 THEN ""
    ELSE IF Len(parts) = 1 THEN parts[1]
    ELSE parts[1] \o sep \o join(sep, Tail(parts))

\* f"{x:.1f}" of a float held in thousandths (round half up on the hundredths)
Fmt1(x) ==
    LET t == (x + 50) \div 100
    IN  (IF x < 0 /\ t # 0 THEN "-" ELSE "")
            \o ToString((IF t < 0 THEN -t ELSE t) \div 10) \o "."
            \o ToString((IF t < 0 THEN -t ELSE t) % 10)

\* f"{c:.2f}" of a confidence held in hundredths
Fmt2(c) == ToString(c \div 100) \o "." \o ToString((c % 100) \div 10)
               \o ToString(c % 10)

FmtSigned_Abs(n) == ToString(IF n >= 0 THEN n ELSE -n)

\* f"{n:+d}"
FmtSigned(n) == IF n >= 0 THEN "+" \o ToString(n) ELSE "-" \o ToString(-n)

-----------------------------------------------------------------------------
(* backend/core/scoring.py                                                 *)

EVENT_TYPE_SCORES ==
    [goal |-> 4, touchdown |-> 4, interception |-> 3, fumble |-> 3,
     big_play |-> 3, penalty |-> 1, tackle |-> 0, celebration |-> 2,
     timeout |-> -1, halftime |-> 1, injury |-> -1, unknown |-> -2]

INTENSITY_SCORES == [high |-> 2, medium |-> 1, low |-> 0]

\* dict.items() iterates in insertion order
CROWD_KEYWORDS ==
    << <<"loud", 2>>, <<"roar", 2>>, <<"cheer", 2>>, <<"wild", 2>>,
       <<"silent", -1>>, <<"boo", 1>>, <<"gasp", 1>> >>

CONFIDENCE_PENALTY_THRESHOLD == 50
CONFIDENCE_PENALTY == -3

\* dict.get(key, default)
Get(d, key, default) == IF key \in DOMAIN d THEN d[key] ELSE default

\* the for/break loop over CROWD_KEYWORDS: the reasons of the first hit
CrowdMatches(crowd_lower) ==
    {i \in 1..Len(CROWD_KEYWORDS) : Contains(crowd_lower, CROWD_KEYWORDS[i][1])}

CrowdHit_None(crowd_reaction) == 0

CrowdHit_LastMatch(crowd_reaction) ==
    IF crowd_reaction = "" THEN 0
    ELSE LET m == CrowdMatches(lower(crowd_reaction))
         IN  IF m = {} THEN 0
             ELSE CHOOSE i \in m : \A j \in m : i >= j

CrowdHit(crowd_reaction) ==
    IF crowd_reaction = "" THEN 0
    ELSE LET m == CrowdMatches(lower(crowd_reaction))
         IN  IF m = {} THEN 0
             ELSE CHOOSE i \in m : \A j \in m : i <= j

Min(a, b) == IF a <= b THEN a ELSE b
Max(a, b) == IF a >= b THEN a ELSE b

ClampNoFloor(raw) == Min(10000, raw)

\* score = max(0.0, min(10.0, score)), in thousandths
Clamp(raw) == Max(0, Min(10000, raw))

calculate_event_score(event_type, intensity, confidence, crowd_reaction) ==
    LET event_type_lower == lower(event_type)
        base_score       == Get(EVENT_TYPE_SCORES, event_type_lower, -2)
        r1 == << [rule |-> "event_type", delta |-> base_score,
                  text |-> "Event type '" \o event_type_lower \o "': "
                               \o FmtSigned(base_score)] >>
        intensity_lower  == lower(intensity)
        intensity_score  == Get(INTENSITY_SCORES, intensity_lower, 0)
        r2 == IF intensity_score # 0
              THEN Append(r1, [rule |-> "intensity", delta |-> intensity_score,
                               text |-> "Intensity '" \o intensity_lower
                                   \o "': " \o FmtSigned(intensity_score)])
              ELSE r1
        penalised == confidence < CONFIDENCE_PENALTY_THRESHOLD
        r3 == IF penalised
              THEN Append(r2, [rule |-> "confidence",
                               delta |-> CONFIDENCE_PENALTY,
                               text |-> "Low confidence (" \o Fmt2(confidence)
                                   \o "): " \o FmtSigned(CONFIDENCE_PENALTY)])
              ELSE r2
        hit == CrowdHit(crowd_reaction)
        bonus == IF hit = 0 THEN 0 ELSE CROWD_KEYWORDS[hit][2]
        r4 == IF hit # 0
              THEN Append(r3, [rule |-> "crowd", delta |-> bonus,
                               text |-> "Crowd '" \o CROWD_KEYWORDS[hit][1]
                                   \o "': " \o FmtSigned(bonus)])
              ELSE r3
        raw_score == 1000 * (base_score + intensity_score
                             + (IF penalised THEN CONFIDENCE_PENALTY ELSE 0)
                             + bonus)
        score == Clamp(raw_score)
        r5 == IF raw_score # score
              THEN Append(r4, [rule |-> "clamp", delta |-> 0,
                               text |-> "Clamped from " \o Fmt1(raw_score)
                                   \o " to " \o Fmt1(score)])
              ELSE r4
    IN  [score |-> score, reasons |-> r5]

-----------------------------------------------------------------------------
(* backend/core/decision.py                                                *)

THRESHOLD_IGNORE == 4000
THRESHOLD_AGGRESSIVE == 7000

OrUnknown(event_type) == IF event_type = "" THEN "unknown" ELSE event_type

make_decision_ExclusiveBand(score, event_type) ==
    IF score <= THRESHOLD_IGNORE
    THEN [generate_ad |-> FALSE, urgency |-> "ignore", reason |-> ""]
    ELSE IF score > THRESHOLD_AGGRESSIVE
    THEN [generate_ad |-> TRUE, urgency |-> "aggressive", reason |-> ""]
    ELSE [generate_ad |-> TRUE, urgency |-> "soft", reason |-> ""]

make_decision_AdOnIgnore(score, event_type) ==
    IF score < THRESHOLD_IGNORE
    THEN [generate_ad |-> TRUE, urgency |-> "ignore", reason |-> ""]
    ELSE IF score >= THRESHOLD_AGGRESSIVE
    THEN [generate_ad |-> TRUE, urgency |-> "aggressive", reason |-> ""]
    ELSE [generate_ad |-> TRUE, urgency |-> "soft", reason |-> ""]

make_decision_SwappedBands(score, event_type) ==
    IF score < THRESHOLD_IGNORE
    THEN [generate_ad |-> FALSE, urgency |-> "ignore", reason |-> ""]
    ELSE IF score >= THRESHOLD_AGGRESSIVE
    THEN [generate_ad |-> TRUE, urgency |-> "soft", reason |-> ""]
    ELSE [generate_ad |-> TRUE, urgency |-> "aggressive", reason |-> ""]

make_decision(score, event_type) ==
    IF score < THRESHOLD_IGNORE
    THEN [generate_ad |-> FALSE, urgency |-> "ignore",
          reason |-> "Score " \o Fmt1(score) \o " below threshold (4.0). "
                     \o "Event type: " \o OrUnknown(event_type)]
    ELSE IF score >= THRESHOLD_AGGRESSIVE
    THEN [generate_ad |-> TRUE, urgency |-> "aggressive",
          reason |-> "Score " \o Fmt1(score) \o " >= 7.0: HIGH-VALUE moment. "
                     \o "Event type: " \o OrUnknown(event_type)
                     \o ". Aggressive ad recommended."]
    ELSE [generate_ad |-> TRUE, urgency |-> "soft",
          reason |-> "Score " \o Fmt1(score)
                     \o " in moderate range [4.0-7.0). "
                     \o "Event type: " \o OrUnknown(event_type)
                     \o ". Soft ad recommended."]

-----------------------------------------------------------------------------
(* backend/services/gemini.py                                              *)

CONFIDENCE_THRESHOLD == 40

NoData == [x \in {} |-> 0]

\* The values json.loads can put in a payload: a string, a number (in
\* hundredths where it is a confidence), null, NaN, or an integer too large
\* for a float
JsonStr(s) == [t |-> "str", s |-> s]
JsonNum(n) == [t |-> "num", n |-> n]
JsonNull == [t |-> "null"]
JsonNaN == [t |-> "nan"]
JsonBigInt == [t |-> "bigint"]

TypeName(v) ==
    CASE v.t = "null" -> "NoneType"
      [] v.t \in {"num", "bigint"} -> "int"
      [] v.t = "nan" -> "float"
      [] OTHER -> v.t

\* What the perception provider can answer to one generate_content call:
\* an exception, or a response text together with what json.loads makes of
\* it (a decode error, a list, or an object).
PerceptionOutcomes ==
    { [kind |-> "exception", error |-> "503 UNAVAILABLE", raw |-> "",
       json |-> "none", data |-> NoData],
      [kind |-> "exception", error |-> "", raw |-> "",
       json |-> "none", data |-> NoData],
      [kind |-> "response", error |-> "", raw |-> "I see a touchdown!",
       json |-> "malformed", data |-> NoData],
      [kind |-> "response", error |-> "", raw |-> "[1, 2]",
       json |-> "list", data |-> NoData],
      [kind |-> "response", error |-> "", raw |-> "{penalty, 0.30}",
       json |-> "object",
       data |-> [event_type |-> JsonStr("penalty"),
                 intensity |-> JsonStr("medium"),
                 summary |-> "a flag", confidence |-> JsonNum(30)]],
      [kind |-> "response", error |-> "", raw |-> "{streaker, 0.45}",
       json |-> "object",
       data |-> [event_type |-> JsonStr("streaker"),
                 intensity |-> JsonStr("extreme"),
                 summary |-> "a streaker", crowd_reaction |-> "silent",
                 confidence |-> JsonNum(45)]],
      [kind |-> "response", error |-> "", raw |-> "{interception, 0.80}",
       json |-> "object",
       data |-> [event_type |-> JsonStr("interception"),
                 intensity |-> JsonStr("medium"),
                 summary |-> "picked off", confidence |-> JsonNum(80)]],
      [kind |-> "response", error |-> "", raw |-> "{Big Play, 1.50}",
       json |-> "object",
       data |-> [event_type |-> JsonStr(" Big Play"),
                 intensity |-> JsonStr("HIGH "),
                 summary |-> "long run", crowd_reaction |-> "LOUD boos",
                 confidence |-> JsonNum(150)]] }

known_types ==
    {"goal", "touchdown", "tackle", "interception", "fumble", "penalty",
     "big_play", "injury", "halftime", "timeout", "celebration", "unknown"}

\* the AttributeError of  value.lower()  or  value.get()  on a value that
\* has no such method
NoAttribute(type_name, attr) ==
    [raised |-> "'" \o type_name \o "' object has no attribute '"
                    \o attr \o "'"]

\* [value |-> the normalized type], or [raised |-> message]
_normalize_event_type(event_type) ==
    IF event_type.t # "str" THEN NoAttribute(TypeName(event_type), "lower")
    ELSE LET normalized == replace_space(strip(lower(event_type.s)))
         IN  [value |-> IF normalized \in known_types THEN normalized
                        ELSE "unknown"]

_normalize_intensity(intensity) ==
    IF intensity.t # "str" THEN NoAttribute(TypeName(intensity), "lower")
    ELSE LET intensity_lower == strip(lower(intensity.s))
         IN  [value |-> IF intensity_lower \in {"low", "medium", "high"}
                        THEN intensity_lower ELSE "low"]

\* float() of a string, for strings of the form "d.dd"; any other string
\* raises ValueError
IsDecimal(s) ==
    /\ Len(s) = 4
    /\ CharAt(s, 2) = "."
    /\ \A i \in {1, 3, 4} : \E d \in 0..9 : ToString(d) = CharAt(s, i)

DecimalValue(s) ==
    LET digit(i) == CHOOSE d \in 0..9 : ToString(d) = CharAt(s, i)
    IN  100 * digit(1) + 10 * digit(3) + digit(4)

_clamp_confidence_Unclamped(confidence) ==
    [value |-> IF confidence.t = "num" THEN confidence.n ELSE 0]

\* max(0.0, min(1.0, float(confidence))), in hundredths, 0.0 on ValueError
\* and TypeError; min(1.0, nan) is 1.0; float() of a huge int raises
\* OverflowError, which is not caught here
_clamp_confidence(confidence) ==
    CASE confidence.t = "num" -> [value |-> Max(0, Min(100, confidence.n))]
      [] confidence.t = "str" ->
            [value |-> IF IsDecimal(confidence.s)
                       THEN Max(0, Min(100, DecimalValue(confidence.s)))
                       ELSE 0]
      [] confidence.t = "null" -> [value |-> 0]
      [] confidence.t = "nan" -> [value |-> 100]
      [] confidence.t = "bigint" ->
            [raised |-> "int too large to convert to float"]

GeminiAnalysisResult(success, event_type, intensity, summary, crowd_reaction, confidence, raw_response, error) ==
    [success |-> success, event_type |-> event_type, intensity |-> intensity,
     summary |-> summary, crowd_reaction |-> crowd_reaction,
     confidence |-> confidence, raw_response |-> raw_response,
     error |-> error]

\* A failure built with the dataclass defaults
GeminiFailure(raw_response, error) ==
    GeminiAnalysisResult(FALSE, "unknown", "low", "", "", 0, raw_response,
                         error)

Raises(x) == "raised" \in DOMAIN x

BelowThreshold_Inclusive(confidence) == confidence <= CONFIDENCE_THRESHOLD

\* confidence < self.CONFIDENCE_THRESHOLD
BelowThreshold(confidence) == confidence < CONFIDENCE_THRESHOLD

\* The result, or [raised |-> message] for an exception the method does not
\* catch (it catches JSONDecodeError, KeyError and TypeError only).
_parse_response(o) ==
    IF o.json = "malformed"
    THEN GeminiFailure(o.raw, "JSON parse error: Expecting value")
    ELSE IF o.json # "object"
    THEN NoAttribute(o.json, "get")
    ELSE
      LET data       == o.data
          event_type == _normalize_event_type(
                            Get(data, "event_type", JsonStr("unknown")))
          intensity  == _normalize_intensity(
                            Get(data, "intensity", JsonStr("low")))
          confidence == _clamp_confidence(Get(data, "confidence", JsonNum(0)))
      IN  IF Raises(event_type) THEN event_type
          ELSE IF Raises(intensity) THEN intensity
          ELSE IF Raises(confidence) THEN confidence
          ELSE IF BelowThreshold(confidence.value)
          THEN GeminiAnalysisResult(FALSE, event_type.value, intensity.value,
                   Get(data, "summary", ""), Get(data, "crowd_reaction", ""),
                   confidence.value, o.raw,
                   "Confidence " \o Fmt2(confidence.value)
                       \o " below threshold 0.4")
          ELSE GeminiAnalysisResult(TRUE, event_type.value, intensity.value,
                   Get(data, "summary", ""), Get(data, "crowd_reaction", ""),
                   confidence.value, o.raw, None)

\* GeminiService.analyze_segment: the try/except around the provider call
\* and _parse_response
gemini_analyze_segment(o) ==
    IF o.kind = "exception" THEN GeminiFailure("", o.error)
    ELSE LET parsed == _parse_response(o)
         IN  IF Raises(parsed)
             THEN GeminiFailure("", parsed.raised)
             ELSE parsed

-----------------------------------------------------------------------------
(* backend/services/groq.py                                                *)

CreativeOutcomes ==
    { [kind |-> "exception", error |-> "429 rate limit", json |-> "none",
       ad_copy |-> ""],
      [kind |-> "response", error |-> "", json |-> "malformed",
       ad_copy |-> ""],
      [kind |-> "response", error |-> "", json |-> "object",
       ad_copy |-> "Big play, big deal!"] }

AdGenerationResult(success, ad_copy, error) ==
    [success |-> success, ad_copy |-> ad_copy, error |-> error]

\* GroqService.generate_ad with GroqService._parse_response
groq_generate_ad(o) ==
    IF o.kind = "exception" THEN AdGenerationResult(FALSE, "", o.error)
    ELSE IF o.json = "malformed"
    THEN AdGenerationResult(FALSE, "", "JSON parse error: Expecting value")
    ELSE AdGenerationResult(TRUE, o.ad_copy, None)

-----------------------------------------------------------------------------
(* backend/db: the two tables                                              *)

Unset == [unset |-> TRUE]

Ids(table) == {row.id : row \in table}

\* id = Column(Integer, primary_key=True, autoincrement=True) on SQLite:
\* the largest rowid of the table plus one
NextId_Constant(table) == 1

NextId(table) ==
    IF table = {} THEN 1
    ELSE 1 + CHOOSE m \in Ids(table) : \A i \in Ids(table) : i <= m

\* Event(...) as inserted by db.add(event); db.commit(); db.refresh(event)
\* (the latency and created_at columns are left out)
EventRow(id, req, event_type, intensity, summary, crowd_reaction, confidence, score, generate_ad, urgency, raw_response) ==
    [id |-> id, start_sec |-> req.start_sec, end_sec |-> req.end_sec,
     event_type |-> event_type, intensity |-> intensity,
     summary |-> summary, crowd_reaction |-> crowd_reaction,
     confidence |-> confidence, score |-> score,
     generate_ad |-> generate_ad, urgency |-> urgency,
     raw_response |-> raw_response]

\* Ad(...) as inserted by db.add(ad); db.commit(); db.refresh(ad)
AdRow(id, event_id, ad_copy, urgency) ==
    [id |-> id, event_id |-> event_id, ad_copy |-> ad_copy,
     urgency |-> urgency]

\* reset_db(): drop_all, create_all
reset_db == {}

-----------------------------------------------------------------------------
(* backend/api/routes.py                                                   *)

\* An AnalyzeSegmentRequest: the same window every time, with or without a
\* video_uri of its own
RequestInputs ==
    { [start_sec |-> 0, end_sec |-> 10, video_uri |-> None],
      [start_sec |-> 0, end_sec |-> 10, video_uri |-> "files/given"] }

Falsy_Never(x) == FALSE

\* Python's  not x  on an Optional[str]
Falsy(x) == x = None \/ x = ""

Init ==
    /\ env \in [GOOGLE_API_KEY : BOOLEAN, GROQ_API_KEY : BOOLEAN]
    /\ video_uri = None
    /\ uploading = FALSE
    /\ upc = [u \in Uploads |-> "idle"]
    /\ since_reset = {}
    /\ events = {}
    /\ ads = {}
    /\ pc = [r \in Requests |-> "idle"]
    /\ request = [r \in Requests |-> Unset]
    /\ analysis = [r \in Requests |-> Unset]
    /\ scored = [r \in Requests |-> Unset]
    /\ decision = [r \in Requests |-> Unset]
    /\ event = [r \in Requests |-> Unset]
    /\ ad_result = [r \in Requests |-> Unset]
    /\ calls = [r \in Requests |-> <<>>]
    /\ raised = [r \in Requests |-> None]
    /\ result = [r \in Requests |-> Unset]
    /\ call = Unset
    /\ ret = Unset

pureVars == <<call, ret>>
uploadVars == <<uploading, upc, since_reset>>
localVars == <<analysis, scored, decision, event, ad_result>>

\* upload_video, as one step: the upload succeeds and stores the URI, or it
\* is refused or fails and stores nothing
upload_video ==
    /\ \/ /\ env.GOOGLE_API_KEY
          /\ video_uri' = "files/uploaded"
       \/ UNCHANGED video_uri
    /\ UNCHANGED <<env, events, ads, pc, request, localVars, calls, raised,
                   result, pureVars, uploadVars>>

\* reset_all
reset_all ==
    /\ events' = reset_db
    /\ ads' = reset_db
    /\ video_uri' = None
    /\ since_reset' = {}
    /\ UNCHANGED <<env, pc, request, localVars, calls, raised, result,
                   pureVars, uploading, upc>>

Raise(r, what) ==
    /\ pc' = [pc EXCEPT ![r] = "raised"]
    /\ raised' = [raised EXCEPT ![r] = what]

\* analyze_segment, lines 120-125: the URI of the request, else the stored
\* one; [raised |-> the error] when there is neither
ResolveUri(request_uri, stored_uri) ==
    LET uri == IF Falsy(request_uri) THEN stored_uri ELSE request_uri
    IN  IF Falsy(uri) THEN [raised |-> "HTTPException 400"]
        ELSE [uri |-> uri]

\* analyze_segment, lines 119-129: resolve the URI, build GeminiService and
\* issue the perception call. Requests are numbered in order of arrival.
Arrive(r) ==
    /\ pc[r] = "idle"
    /\ IF r = 1 THEN TRUE ELSE pc[r - 1] # "idle"
    /\ \E req \in RequestInputs :
         LET uri == ResolveUri(req.video_uri, video_uri)
         IN  /\ request' = [request EXCEPT ![r] =
                    [start_sec |-> req.start_sec, end_sec |-> req.end_sec]]
             /\ IF Raises(uri)
                THEN /\ Raise(r, uri.raised)
                     /\ UNCHANGED calls
                ELSE IF ~env.GOOGLE_API_KEY
                THEN /\ Raise(r, "ValueError: Missing Gemini API key")
                     /\ UNCHANGED calls
                ELSE /\ pc' = [pc EXCEPT ![r] = "perceiving"]
                     /\ calls' = [calls EXCEPT ![r] =
                            <<[to |-> "perception", urgency |-> None]>>]
                     /\ UNCHANGED raised
    /\ UNCHANGED <<env, video_uri, events, ads, localVars, result, pureVars, uploadVars>>

\* EventResponse.model_validate(event): the fields of the schema
EventResponse(row) ==
    [f \in {"id", "start_sec", "end_sec", "event_type", "intensity",
            "summary", "confidence", "score", "generate_ad", "urgency"} |->
        row[f]]

\* AdResponse.model_validate(ad)
AdResponse(row) ==
    [f \in {"id", "event_id", "ad_copy", "urgency"} |-> row[f]]

\* What analyze_segment gets back for each answer of the provider, and the
\* score of each such analysis (both are functions of their input alone)
PerceptionResults ==
    [o \in PerceptionOutcomes |-> gemini_analyze_segment(o)]

ScoreOf ==
    [a \in {PerceptionResults[o] : o \in PerceptionOutcomes} |->
        calculate_event_score(a.event_type, a.intensity, a.confidence,
                              a.crowd_reaction)]

\* AnalysisResult(event=..., ad=..., decision_reason=...)
AnalysisResult(ev, adv, decision_reason) ==
    [event |-> ev, ad |-> adv, decision_reason |-> decision_reason]

\* lines 214-222: the explanation of a scored segment
Explanation(d, score_reasons) ==
    join(" | ", <<d.reason,
                  "Score breakdown: "
                      \o join("; ", [i \in 1..Len(score_reasons) |->
                                        score_reasons[i].text])>>)

\* groq.generate_ad(event_type=..., urgency=decision.urgency, ...)
CreativeCall_DefaultUrgency(d) == [to |-> "creative", urgency |-> "soft"]

CreativeCall(d) == [to |-> "creative", urgency |-> d.urgency]

\* db.add(event); db.commit(); db.refresh(event): the row is inserted, or
\* the commit raises
CommitEvent(r, row) ==
    /\ events' = events \cup {row}
    /\ event' = [event EXCEPT ![r] = row]

CommitFails_Swallowed(r) ==
    /\ pc' = [pc EXCEPT ![r] = "returned"]
    /\ UNCHANGED raised

CommitFails(r) == Raise(r, "OperationalError")

\* analyze_segment, lines 129-154: the perception call returns a failure and
\* the segment is discarded
Discard(r) ==
    /\ pc[r] = "perceiving"
    /\ \E o \in PerceptionOutcomes :
         LET a   == PerceptionResults[o]
             row == EventRow(NextId(events), request[r], "unknown", "low",
                             IF Falsy(a.error) THEN "Analysis failed"
                             ELSE a.error,
                             None, a.confidence, 0, FALSE, "ignore",
                             a.raw_response)
         IN  /\ ~a.success
             /\ analysis' = [analysis EXCEPT ![r] = a]
             /\ \/ /\ CommitEvent(r, row)
                   /\ result' = [result EXCEPT ![r] =
                          AnalysisResult(EventResponse(row), Unset,
                                         "Segment discarded: " \o a.error)]
                   /\ pc' = [pc EXCEPT ![r] = "returned"]
                   /\ UNCHANGED raised
                \/ /\ CommitFails(r)
                   /\ UNCHANGED <<events, event, result>>
    /\ UNCHANGED <<env, video_uri, ads, request, scored, decision, ad_result,
                   calls, pureVars, uploadVars>>

\* analyze_segment, lines 129-130 and 156-196 (and 214-222 when no ad is
\* wanted): the perception call returns an event; score, decide, commit the
\* Event, then build GroqService and issue the creative call
ScoreDecidePersist(r) ==
    /\ pc[r] = "perceiving"
    /\ \E o \in PerceptionOutcomes :
         LET a   == PerceptionResults[o]
             sc  == ScoreOf[a]
             d   == make_decision(sc.score, a.event_type)
             row == EventRow(NextId(events), request[r], a.event_type,
                             a.intensity, a.summary, a.crowd_reaction,
                             a.confidence, sc.score, d.generate_ad,
                             d.urgency, a.raw_response)
         IN  /\ a.success
             /\ analysis' = [analysis EXCEPT ![r] = a]
             /\ scored' = [scored EXCEPT ![r] = sc]
             /\ decision' = [decision EXCEPT ![r] = d]
             /\ \/ /\ CommitEvent(r, row)
                   /\ IF ~d.generate_ad
                      THEN /\ result' = [result EXCEPT ![r] =
                                  AnalysisResult(EventResponse(row), Unset,
                                                 Explanation(d, sc.reasons))]
                           /\ pc' = [pc EXCEPT ![r] = "returned"]
                           /\ UNCHANGED <<raised, calls>>
                      ELSE IF ~env.GROQ_API_KEY
                      THEN /\ Raise(r, "ValueError: Missing GROQ_API_KEY")
                           /\ UNCHANGED <<result, calls>>
                      ELSE /\ pc' = [pc EXCEPT ![r] = "creating"]
                           /\ calls' = [calls EXCEPT ![r] =
                                  Append(@, CreativeCall(d))]
                           /\ UNCHANGED <<raised, result>>
                \/ /\ CommitFails(r)
                   /\ UNCHANGED <<events, event, result, calls>>
    /\ UNCHANGED <<env, video_uri, ads, request, ad_result, pureVars, uploadVars>>

\* The row the session loads for an expired Event object
Reload(ev) == {row \in events : row.id = ev.id}

\* analyze_segment, lines 198-222: the creative call returns
CreativeReturns(r) ==
    /\ pc[r] = "creating"
    /\ \E o \in CreativeOutcomes :
         LET res == groq_generate_ad(o)
             row == AdRow(NextId(ads), event[r].id, res.ad_copy,
                          decision[r].urgency)
         IN  /\ ad_result' = [ad_result EXCEPT ![r] = res]
             /\ IF res.success
                THEN \/ /\ ads' = ads \cup {row}
                        /\ IF Reload(event[r]) = {}
                           THEN \* the commit expired "event", whose row
                                \* is gone
                                /\ Raise(r, "ObjectDeletedError")
                                /\ UNCHANGED result
                           ELSE /\ result' = [result EXCEPT ![r] =
                                       AnalysisResult(
                                           EventResponse(
                                               CHOOSE e \in Reload(event[r]) :
                                                   TRUE),
                                           AdResponse(row),
                                           Explanation(decision[r],
                                                       scored[r].reasons))]
                                /\ pc' = [pc EXCEPT ![r] = "returned"]
                                /\ UNCHANGED raised
                     \/ /\ CommitFails(r)
                        /\ UNCHANGED <<ads, result>>
                ELSE /\ result' = [result EXCEPT ![r] =
                            AnalysisResult(EventResponse(event[r]), Unset,
                                           Explanation(decision[r],
                                                       scored[r].reasons))]
                     /\ pc' = [pc EXCEPT ![r] = "returned"]
                     /\ UNCHANGED <<ads, raised>>
    /\ UNCHANGED <<env, video_uri, events, request, analysis, scored,
                   decision, event, calls, pureVars, uploadVars>>

Next ==
    \/ upload_video
    \/ reset_all
    \/ \E r \in Requests : Arrive(r)
    \/ \E r \in Requests : Discard(r)
    \/ \E r \in Requests : ScoreDecidePersist(r)
    \/ \E r \in Requests : CreativeReturns(r)

Spec == Init /\ [][Next]_vars

-----------------------------------------------------------------------------
(* upload_video step by step, with the other handlers that write _state.   *)
(* The bodies under _state_lock are atomic; between them another request   *)
(* may run.                                                                *)

analysisVars == <<events, ads, pc, request, localVars, calls, raised, result>>

\* lines 61-64: under the lock, refuse with 409 if an upload is in
\* progress, else set the flag
UploadArrive(u) ==
    /\ upc[u] = "idle"
    /\ IF uploading
       THEN /\ upc' = [upc EXCEPT ![u] = "rejected"]
            /\ UNCHANGED <<uploading, since_reset>>
       ELSE /\ upc' = [upc EXCEPT ![u] = "running"]
            /\ uploading' = TRUE
            /\ since_reset' = since_reset \cup {u}
    /\ UNCHANGED <<env, video_uri, analysisVars, pureVars>>

\* lines 67-79: the file is saved and uploaded, and the URI stored under
\* the lock
UploadStore(u) ==
    /\ upc[u] = "running"
    /\ env.GOOGLE_API_KEY
    /\ video_uri' = "files/uploaded"
    /\ upc' = [upc EXCEPT ![u] = "stored"]
    /\ UNCHANGED <<env, uploading, since_reset, analysisVars, pureVars>>

\* lines 67-74 and 81-82: saving the file, building GeminiService or the
\* upload raises; the handler answers 500
UploadFail(u) ==
    /\ upc[u] = "running"
    /\ upc' = [upc EXCEPT ![u] = "failed"]
    /\ UNCHANGED <<env, video_uri, uploading, since_reset, analysisVars,
                   pureVars>>

UploadFinish_OnlyOnSuccess(u) ==
    /\ upc[u] \in {"stored", "failed"}
    /\ uploading' = (upc[u] = "failed")
    /\ upc' = [upc EXCEPT ![u] = IF upc[u] = "stored" THEN "done"
                                 ELSE "error"]
    /\ UNCHANGED <<env, video_uri, since_reset, analysisVars, pureVars>>

\* lines 83-85: the finally clause clears the flag under the lock, and the
\* handler answers
UploadFinish(u) ==
    /\ upc[u] \in {"stored", "failed"}
    /\ uploading' = FALSE
    /\ upc' = [upc EXCEPT ![u] = IF upc[u] = "stored" THEN "done"
                                 ELSE "error"]
    /\ UNCHANGED <<env, video_uri, since_reset, analysisVars, pureVars>>

NextUpload ==
    \/ \E u \in Uploads : UploadArrive(u)
    \/ \E u \in Uploads : UploadStore(u)
    \/ \E u \in Uploads : UploadFail(u)
    \/ \E u \in Uploads : UploadFinish(u)
    \/ reset_all

SpecUpload == Init /\ [][NextUpload]_vars

-----------------------------------------------------------------------------
(* The scoring engine and the decision layer called on their own, as       *)
(* _test_scoring and _test_decision call them.                             *)

EventTypeInputs == known_types \cup {"TOUCHDOWN", "Goal", "streaker", ""}
IntensityInputs == {"low", "medium", "high", "HIGH", "extreme"}
ConfidenceInputs == {0, 30, 35, 49, 50, 51, 90, 92, 95, 100}
CrowdInputs ==
    {"", "crowd roars", "crowd goes wild", "LOUD boos", "silent gasp",
     "booing", "polite applause", "Cheering, then silent"}
ScoreInputs ==
    {-1000, 0, 2500, 3000, 3900, 3999, 4000, 5500, 6999, 7000, 8500, 10000,
     11000}
DecisionEventTypes == {"", "unknown", "tackle", "goal"}

ScoreCalls ==
    [fn : {"calculate_event_score"}, event_type : EventTypeInputs,
     intensity : IntensityInputs, confidence : ConfidenceInputs,
     crowd_reaction : CrowdInputs]

DecisionCalls ==
    [fn : {"make_decision"}, score : ScoreInputs,
     event_type : DecisionEventTypes]

\* An object payload with the given values
ObjectPayload(raw, event_type, intensity, confidence) ==
    [kind |-> "response", error |-> "", raw |-> raw, json |-> "object",
     data |-> [event_type |-> event_type, intensity |-> intensity,
               summary |-> "a play", crowd_reaction |-> "cheers",
               confidence |-> confidence]]

\* Answers of the provider beyond those of PerceptionOutcomes: JSON that is
\* no object, an empty object, values out of the enumerations, values of
\* the wrong type, confidences around the threshold and out of range
ParseInputs ==
    PerceptionOutcomes \cup
    { [kind |-> "response", error |-> "", raw |-> "'touchdown'",
       json |-> "str", data |-> NoData],
      [kind |-> "response", error |-> "", raw |-> "null",
       json |-> "NoneType", data |-> NoData],
      [kind |-> "response", error |-> "", raw |-> "{}",
       json |-> "object", data |-> NoData],
      ObjectPayload("{goal, high, 0.40}", JsonStr("goal"), JsonStr("high"),
                    JsonNum(40)),
      ObjectPayload("{goal, high, 0.39}", JsonStr("goal"), JsonStr("high"),
                    JsonNum(39)),
      ObjectPayload("{goal, high, -0.20}", JsonStr("goal"), JsonStr("high"),
                    JsonNum(-20)),
      ObjectPayload("{goal, high, '0.95'}", JsonStr("goal"), JsonStr("high"),
                    JsonStr("0.95")),
      ObjectPayload("{goal, high, 'high'}", JsonStr("goal"), JsonStr("high"),
                    JsonStr("high")),
      ObjectPayload("{goal, high, null}", JsonStr("goal"), JsonStr("high"),
                    JsonNull),
      ObjectPayload("{goal, high, NaN}", JsonStr("goal"), JsonStr("high"),
                    JsonNaN),
      ObjectPayload("{goal, high, 1e400 as int}", JsonStr("goal"),
                    JsonStr("high"), JsonBigInt),
      ObjectPayload("{Field Goal, Extreme, 0.90}", JsonStr("Field Goal"),
                    JsonStr("Extreme"), JsonNum(90)),
      ObjectPayload("{null, high, 0.90}", JsonNull, JsonStr("high"),
                    JsonNum(90)),
      ObjectPayload("{7, high, 0.90}", JsonNum(7), JsonStr("high"),
                    JsonNum(90)),
      ObjectPayload("{goal, null, 0.90}", JsonStr("goal"), JsonNull,
                    JsonNum(90)),
      ObjectPayload("{goal, 3, 0.90}", JsonStr("goal"), JsonNum(3),
                    JsonNum(90)) }

ParseCalls == [fn : {"analyze_segment"}, outcome : ParseInputs]

InitPure ==
    /\ env = [GOOGLE_API_KEY |-> TRUE, GROQ_API_KEY |-> TRUE]
    /\ video_uri = None
    /\ uploading = FALSE
    /\ upc = [u \in Uploads |-> "idle"]
    /\ since_reset = {}
    /\ events = {}
    /\ ads = {}
    /\ pc = [r \in Requests |-> "idle"]
    /\ request = [r \in Requests |-> Unset]
    /\ analysis = [r \in Requests |-> Unset]
    /\ scored = [r \in Requests |-> Unset]
    /\ decision = [r \in Requests |-> Unset]
    /\ event = [r \in Requests |-> Unset]
    /\ ad_result = [r \in Requests |-> Unset]
    /\ calls = [r \in Requests |-> <<>>]
    /\ raised = [r \in Requests |-> None]
    /\ result = [r \in Requests |-> Unset]
    /\ call \in ScoreCalls \cup DecisionCalls \cup ParseCalls
    /\ ret = Unset

pipelineVars == <<env, video_uri, uploadVars, events, ads, pc, request,
                  localVars, calls, raised, result>>

CallScore ==
    /\ call.fn = "calculate_event_score"
    /\ ret = Unset
    /\ ret' = calculate_event_score(call.event_type, call.intensity,
                                    call.confidence, call.crowd_reaction)
    /\ UNCHANGED <<call, pipelineVars>>

CallDecision ==
    /\ call.fn = "make_decision"
    /\ ret = Unset
    /\ ret' = make_decision(call.score, call.event_type)
    /\ UNCHANGED <<call, pipelineVars>>

\* GeminiService.analyze_segment on one answer of the provider
CallParse ==
    /\ call.fn = "analyze_segment"
    /\ ret = Unset
    /\ ret' = gemini_analyze_segment(call.outcome)
    /\ UNCHANGED <<call, pipelineVars>>

NextPure == CallScore \/ CallDecision \/ CallParse

SpecPure == InitPure /\ [][NextPure]_vars

-----------------------------------------------------------------------------
(* Properties.                                                             *)

Terminal(r) == pc[r] \in {"returned", "raised"}

PerceptionCalls(r) ==
    Cardinality({i \in 1..Len(calls[r]) : calls[r][i].to = "perception"})

CreativeCalls(r) ==
    Cardinality({i \in 1..Len(calls[r]) : calls[r][i].to = "creative"})

\* C1: for every event_type (listed or not), intensity (listed or not),
\* confidence in [0,1] and crowd_reaction, the score calculate_event_score
\* returns lies in [0,10].
C1_ScoreInRange ==
    (ret # Unset /\ call.fn = "calculate_event_score")
        => (0 <= ret.score /\ ret.score <= 10000)

\* an unlisted event type with a low confidence: the sum is negative and
\* the clamp brought it back to 0
C1_Witness ==
    /\ ret # Unset
    /\ call.fn = "calculate_event_score"
    /\ call.event_type = "streaker"
    /\ call.intensity = "extreme"
    /\ call.confidence = 30
    /\ ret.score = 0
    /\ ret.reasons[Len(ret.reasons)].rule = "clamp"

\* C2: make_decision has three bands with inclusive lower bounds: below 4.0
\* ignore and no ad, from 4.0 and below 7.0 soft and an ad, from 7.0 on
\* aggressive and an ad; the event_type changes neither urgency nor
\* generate_ad.
C2_DecisionBands ==
    (ret # Unset /\ call.fn = "make_decision") =>
        /\ call.score < 4000
               => (ret.urgency = "ignore" /\ ~ret.generate_ad)
        /\ (4000 <= call.score /\ call.score < 7000)
               => (ret.urgency = "soft" /\ ret.generate_ad)
        /\ call.score >= 7000
               => (ret.urgency = "aggressive" /\ ret.generate_ad)
        /\ \A et \in DecisionEventTypes :
               /\ make_decision(call.score, et).urgency = ret.urgency
               /\ make_decision(call.score, et).generate_ad = ret.generate_ad

\* a score exactly on the lower threshold was decided, and falls in the
\* higher band
C2_Witness ==
    /\ ret # Unset
    /\ call.fn = "make_decision"
    /\ call.score = 4000
    /\ call.event_type = "tackle"
    /\ ret.urgency = "soft"

\* C3: every Decision of make_decision and every Event row analyze_segment
\* persists, scored or discarded, has generate_ad = (urgency # ignore).
C3_GenerateAdIffNotIgnore ==
    /\ \A e \in events : e.generate_ad = (e.urgency # "ignore")
    /\ \A r \in Requests :
           decision[r] # Unset
               => decision[r].generate_ad = (decision[r].urgency # "ignore")

\* the store holds a discarded row and the row of a decision asking for an
\* ad
C3_Witness ==
    \E r1, r2 \in Requests :
        /\ analysis[r1] # Unset /\ ~analysis[r1].success
        /\ event[r1] \in events
        /\ decision[r2] # Unset /\ decision[r2].generate_ad
        /\ event[r2] \in events

PerceptionFailed(r) ==
    \/ raised[r] = "ValueError: Missing Gemini API key"
    \/ analysis[r] # Unset /\ ~analysis[r].success

\* C4: whenever perception fails (provider error, failure to construct the
\* perception service, unparsable payload, low confidence), analyze_segment
\* raises nothing: it persists one Event with score 0, generate_ad false and
\* urgency ignore, makes no creative call and returns an explanation naming
\* the discard reason. (A failing commit of that Event is left aside.)
C4_PerceptionFailureAbsorbed ==
    \A r \in Requests :
        (PerceptionFailed(r) /\ raised[r] # "OperationalError") =>
            /\ pc[r] = "returned"
            /\ event[r] # Unset
            /\ event[r].score = 0
            /\ ~event[r].generate_ad
            /\ event[r].urgency = "ignore"
            /\ CreativeCalls(r) = 0
            /\ Contains(result[r].decision_reason,
                        "Segment discarded: " \o analysis[r].error)

CreativeFailed(r) ==
    \/ raised[r] = "ValueError: Missing GROQ_API_KEY"
    \/ ad_result[r] # Unset /\ ~ad_result[r].success

\* C5: whenever the decision is soft or aggressive and the creative
\* collaborator fails in any way (provider error, unparsable output, failure
\* to construct the creative service), analyze_segment raises nothing: the
\* Event stays persisted with its fields, no Ad is attached and a result is
\* returned.
C5_CreativeFailureAbsorbed ==
    \A r \in Requests :
        CreativeFailed(r) =>
            /\ pc[r] = "returned"
            /\ event[r] # Unset
            /\ result[r].event = EventResponse(event[r])
            /\ result[r].ad = Unset

ReportsFailure(text, error) ==
    \/ Contains(text, error)
    \/ \E word \in {"fail", "Fail", "FAIL", "error", "Error", "ERROR"} :
           Contains(text, word)

\* C6: when the creative call fails after a soft or aggressive decision, the
\* explanation returned to the caller (decision_reason) reports that
\* failure.
C6_ExplanationReportsCreativeFailure ==
    \A r \in Requests :
        (pc[r] = "returned" /\ ad_result[r] # Unset /\ ~ad_result[r].success)
            => ReportsFailure(result[r].decision_reason, ad_result[r].error)

WantsAd(r) == decision[r] # Unset /\ decision[r].generate_ad

\* C7, as stated: in every invocation the perception collaborator is called
\* exactly once, and the creative collaborator exactly once when the
\* decision has generate_ad true.
C7_Original ==
    \A r \in Requests :
        Terminal(r) =>
            /\ PerceptionCalls(r) = 1
            /\ CreativeCalls(r) = (IF WantsAd(r) THEN 1 ELSE 0)

\* C7, amended: an invocation calls the perception collaborator at most
\* once and before any creative call; it calls the creative collaborator at
\* most once, only after a decision with generate_ad true and with that
\* decision's urgency, never after generate_ad false or a discard; and an
\* invocation that returns a result has called the perception collaborator
\* exactly once and the creative collaborator exactly once if generate_ad is
\* true, else not at all.
C7_CallsInSequence ==
    \A r \in Requests :
        /\ PerceptionCalls(r) <= 1
        /\ CreativeCalls(r) <= 1
        /\ calls[r] # <<>> => calls[r][1].to = "perception"
        /\ CreativeCalls(r) = 1 =>
               /\ analysis[r] # Unset /\ analysis[r].success
               /\ WantsAd(r)
               /\ calls[r][2].urgency = decision[r].urgency
        /\ pc[r] = "returned" =>
               /\ PerceptionCalls(r) = 1
               /\ CreativeCalls(r) = (IF WantsAd(r) THEN 1 ELSE 0)

\* a returned invocation that made both calls, the second with the
\* decision's urgency aggressive
C7_Witness ==
    \E r \in Requests :
        /\ pc[r] = "returned"
        /\ Len(calls[r]) = 2
        /\ decision[r].urgency = "aggressive"
        /\ calls[r][2] = [to |-> "creative", urgency |-> "aggressive"]

\* C8: the stages follow REQUESTED, PERCEIVED, NORMALIZED, SCORED, DECIDED,
\* AD_REQUESTED, AD_ATTACHED or AD_FAILED, PERSISTED, RETURNED: the record is
\* persisted only after the creative call has reached its outcome, so none
\* is persisted while that call is in flight.
C8_PersistedOnlyAfterCreativeOutcome ==
    \A r \in Requests : pc[r] = "creating" => event[r] = Unset

AdSucceeded(r) == ad_result[r] # Unset /\ ad_result[r].success

\* C9: analyze_segment returns a result only after the Event (and the Ad,
\* when the creative call succeeded) has been committed; if a commit fails
\* no result is returned and the failure reaches the caller as an error.
C9_ReturnOnlyAfterCommit ==
    \A r \in Requests :
        /\ result[r] # Unset <=> pc[r] = "returned"
        /\ pc[r] = "returned" =>
               /\ event[r] # Unset
               /\ event[r].id >= 1
               /\ AdSucceeded(r) =>
                      (result[r].ad # Unset /\ result[r].ad.id >= 1)
        /\ raised[r] = "OperationalError" =>
               (pc[r] = "raised" /\ result[r] = Unset)

\* one invocation returned with its Event and its Ad committed, another
\* ended with the error of a failed commit
C9_Witness ==
    \E r1, r2 \in Requests :
        /\ pc[r1] = "returned"
        /\ AdSucceeded(r1)
        /\ \E row \in ads : AdResponse(row) = result[r1].ad
        /\ \E row \in events : EventResponse(row) = result[r1].event
        /\ raised[r2] = "OperationalError"
        /\ pc[r2] = "raised"

EventCommitFailed(r) == raised[r] = "OperationalError" /\ event[r] = Unset

AdsOf(e) == {a \in ads : a.event_id = e.id}

\* C11: once an Event record exists, no step other than the bulk reset
\* removes it or changes one of its fields, and the only later change is the
\* attachment of at most one Ad, by the creative call of the invocation that
\* created the record.
C11_EventImmutableOneAd ==
    /\ [][events \subseteq events' \/ events' = reset_db]_vars
    /\ [](\A e \in events :
            /\ Cardinality(AdsOf(e)) <= 1
            /\ \A a \in AdsOf(e) :
                   \E r \in Requests : event[r] = e /\ AdSucceeded(r))

\* The tables as the claims C12 and C13 state them
StatedBase(t) ==
    CASE t \in {"goal", "touchdown"} -> 4
      [] t \in {"interception", "fumble", "big_play"} -> 3
      [] t = "celebration" -> 2
      [] t \in {"penalty", "halftime"} -> 1
      [] t = "tackle" -> 0
      [] t \in {"timeout", "injury"} -> -1
      [] OTHER -> -2

StatedIntensity(i) ==
    CASE i = "high" -> 2
      [] i = "medium" -> 1
      [] OTHER -> 0

StatedKeywords ==
    << <<"loud", 2>>, <<"roar", 2>>, <<"cheer", 2>>, <<"wild", 2>>,
       <<"boo", 1>>, <<"gasp", 1>>, <<"silent", -1>> >>

\* the keywords of the stated table that occur in the text, by position
StatedMatches(text) ==
    {i \in 1..Len(StatedKeywords) : Contains(lower(text), StatedKeywords[i][1])}

IsScoreCall == ret # Unset /\ call.fn = "calculate_event_score"

\* C12: for every input, the score is the clamp to [0,10] of the sum of the
\* base value of the event type (unlisted: -2), the intensity modifier
\* (unlisted: 0), -3 when the confidence is strictly below 0.5 (0.5 itself is
\* not penalised) and the bonus of one matching crowd keyword (0 when none
\* matches), names being compared in lower case; touchdown/high/0.92/'crowd
\* roars' scores at least 6, unknown/low/0.3 at most 2 and
\* goal/high/0.95/'crowd goes wild' at least 8.
C12_ScoreIsClampedSum ==
    IsScoreCall =>
        LET m == StatedMatches(call.crowd_reaction)
            bonuses == IF m = {} THEN {0}
                       ELSE {StatedKeywords[i][2] : i \in m}
            sum(b) == 1000 * (StatedBase(lower(call.event_type))
                              + StatedIntensity(lower(call.intensity))
                              + (IF call.confidence < 50 THEN -3 ELSE 0)
                              + b)
        IN  /\ \E b \in bonuses : ret.score = Max(0, Min(10000, sum(b)))
            /\ (call.event_type = "touchdown" /\ call.intensity = "high"
                    /\ call.confidence = 92
                    /\ call.crowd_reaction = "crowd roars")
                   => ret.score >= 6000
            /\ (call.event_type = "unknown" /\ call.intensity = "low"
                    /\ call.confidence = 30 /\ call.crowd_reaction = "")
                   => ret.score <= 2000
            /\ (call.event_type = "goal" /\ call.intensity = "high"
                    /\ call.confidence = 95
                    /\ call.crowd_reaction = "crowd goes wild")
                   => ret.score >= 8000

\* a touchdown of high intensity with confidence exactly 0.5 and a roaring
\* crowd was scored 4 + 2 + 0 + 2
C12_Witness ==
    /\ IsScoreCall
    /\ call.event_type = "touchdown"
    /\ call.intensity = "high"
    /\ call.confidence = 50
    /\ call.crowd_reaction = "crowd roars"
    /\ ret.score = 8000

\* the crowd contributions listed in the reasons of the returned score
CrowdReasons == {i \in 1..Len(ret.reasons) : ret.reasons[i].rule = "crowd"}

\* the keywords of a table that occur in the text, by position
MatchesIn(table, text) ==
    {i \in 1..Len(table) : Contains(lower(text), table[i][1])}

\* one bonus at most, that of the first keyword of the table occurring in
\* the text
FirstMatchWins(table) ==
    LET m == MatchesIn(table, call.crowd_reaction)
    IN  /\ Cardinality(CrowdReasons) <= 1
        /\ m = {} <=> CrowdReasons = {}
        /\ \A i \in CrowdReasons :
               LET first == CHOOSE k \in m : \A j \in m : k <= j
               IN  /\ ret.reasons[i].delta = table[first][2]
                   /\ ret.reasons[i].text =
                          "Crowd '" \o table[first][1] \o "': "
                              \o FmtSigned(table[first][2])

\* C13, as stated: at most one crowd bonus is added, that of the first
\* matching keyword in the order loud, roar, cheer, wild, boo, gasp, silent.
C13_Original == IsScoreCall => FirstMatchWins(StatedKeywords)

KeywordsInSourceOrder ==
    << <<"loud", 2>>, <<"roar", 2>>, <<"cheer", 2>>, <<"wild", 2>>,
       <<"silent", -1>>, <<"boo", 1>>, <<"gasp", 1>> >>

\* C13, amended: for any crowd_reaction at most one crowd bonus is added,
\* however many keywords occur in the text (case-insensitive substrings),
\* and it is that of the first matching keyword in the order loud, roar,
\* cheer, wild (+2), silent (-1), boo, gasp (+1): silent comes before boo
\* and gasp.
C13_FirstMatchInSourceOrder ==
    IsScoreCall => FirstMatchWins(KeywordsInSourceOrder)

\* a text holding both silent and gasp was scored with the bonus of silent
C13_Witness ==
    /\ IsScoreCall
    /\ call.crowd_reaction = "silent gasp"
    /\ \E i \in CrowdReasons : ret.reasons[i].delta = -1

StartsWith(s, prefix) ==
    Len(s) >= Len(prefix) /\ SubSeq(s, 1, Len(prefix)) = prefix

\* which rule wrote a line of the reasons list
KindOf(text) ==
    IF StartsWith(text, "Event type '") THEN 1
    ELSE IF StartsWith(text, "Intensity '") THEN 2
    ELSE IF StartsWith(text, "Low confidence (") THEN 3
    ELSE IF StartsWith(text, "Crowd '") THEN 4
    ELSE IF StartsWith(text, "Clamped from ") THEN 5
    ELSE 0

RECURSIVE ParseNat(_)
ParseNat(s) ==
    IF Len(s) = 0 THEN 0
    ELSE 10 * ParseNat(SubSeq(s, 1, Len(s) - 1))
             + CHOOSE d \in 0..9 : ToString(d) = CharAt(s, Len(s))

ParseInt(s) ==
    IF StartsWith(s, "-") THEN 0 - ParseNat(SubSeq(s, 2, Len(s)))
    ELSE IF StartsWith(s, "+") THEN ParseNat(SubSeq(s, 2, Len(s)))
    ELSE ParseNat(s)

\* the number a contribution line ends with, after its last ": "
ListedContribution(text) ==
    LET at == CHOOSE i \in 1..(Len(text) - 1) :
                  /\ SubSeq(text, i, i + 1) = ": "
                  /\ \A j \in (i + 1)..(Len(text) - 1) :
                         SubSeq(text, j, j + 1) # ": "
    IN  ParseInt(SubSeq(text, at + 2, Len(text)))

RECURSIVE SumListed(_)
SumListed(lines) ==
    IF Len(lines) = 0 THEN 0
    ELSE (IF KindOf(lines[1]) \in 1..4 THEN ListedContribution(lines[1])
          ELSE 0) + SumListed(Tail(lines))

\* C14: the reasons list holds the contributions in the order the rules are
\* applied: the event type always (even when 0), then intensity, confidence
\* penalty and crowd bonus each only when applied and non-zero, then a clamp
\* note only when clamping changed the value; the numbers listed, summed and
\* clamped to [0,10], give exactly the returned score.
C14_ReasonsReproduceScore ==
    IsScoreCall =>
        LET lines == [i \in 1..Len(ret.reasons) |-> ret.reasons[i].text]
            kinds == [i \in 1..Len(lines) |-> KindOf(lines[i])]
            has(k) == \E i \in 1..Len(kinds) : kinds[i] = k
            total == SumListed(lines)
        IN  /\ Len(lines) >= 1
            /\ kinds[1] = 1
            /\ \A i \in 1..Len(kinds) : kinds[i] \in 1..5
            /\ \A i, j \in 1..Len(kinds) : i < j => kinds[i] < kinds[j]
            /\ has(2) <=> StatedIntensity(lower(call.intensity)) # 0
            /\ has(3) <=> call.confidence < 50
            /\ has(4) <=> MatchesIn(KeywordsInSourceOrder,
                                    call.crowd_reaction) # {}
            /\ has(5) <=> (total < 0 \/ total > 10)
            /\ \A i \in 2..Len(kinds) :
                   kinds[i] \in 2..4 => ListedContribution(lines[i]) # 0
            /\ ret.score = Max(0, Min(10000, 1000 * total))

\* all five lines were written: an unlisted event type, a medium intensity,
\* a low confidence, a silent crowd, and the clamp of -5 to 0
C14_Witness ==
    /\ IsScoreCall
    /\ call.event_type = "streaker"
    /\ call.intensity = "medium"
    /\ call.confidence = 30
    /\ call.crowd_reaction = "silent gasp"
    /\ Len(ret.reasons) = 5
    /\ ret.reasons[5].text = "Clamped from -5.0 to 0.0"
    /\ ret.score = 0

IsDecisionCall == ret # Unset /\ call.fn = "make_decision"

\* ignore < soft < aggressive
Eagerness(urgency) ==
    CASE urgency = "ignore" -> 0
      [] urgency = "soft" -> 1
      [] urgency = "aggressive" -> 2

\* C15: make_decision is monotonic in the score: for all scores a >= b the
\* urgency for a is at least as ad-eager as the urgency for b (ignore < soft
\* < aggressive), and generate_ad for b implies generate_ad for a.
C15_DecisionMonotonic ==
    IsDecisionCall =>
        \A b \in ScoreInputs, et \in DecisionEventTypes :
            call.score >= b =>
                LET lower_one == make_decision(b, et)
                IN  /\ Eagerness(ret.urgency) >= Eagerness(lower_one.urgency)
                    /\ lower_one.generate_ad => ret.generate_ad

\* the decision for 7.0 was taken, and it is more eager than the one for
\* 6.999, itself more eager than the one for 3.999
C15_Witness ==
    /\ IsDecisionCall
    /\ call.score = 7000
    /\ Eagerness(ret.urgency) = 2
    /\ Eagerness(make_decision(6999, "goal").urgency) = 1
    /\ Eagerness(make_decision(3999, "goal").urgency) = 0

IsCanonical(e) ==
    /\ e.event_type \in known_types
    /\ e.intensity \in {"low", "medium", "high"}
    /\ 0 <= e.confidence /\ e.confidence <= 100

\* C16: whatever the raw perception payload, every event analyze_segment
\* passes to scoring and persists as a scored record has event_type in the
\* closed 12-value enumeration, intensity in {low, medium, high} and
\* confidence in [0,1].
C16_ScoredEventsAreCanonical ==
    \A r \in Requests :
        scored[r] # Unset =>
            /\ IsCanonical(analysis[r])
            /\ event[r] # Unset => IsCanonical(event[r])

\* a payload with a type and an intensity out of the enumerations was
\* persisted as unknown/low, and one with confidence 1.5 as confidence 1.0
C16_Witness ==
    \E r1, r2 \in Requests :
        /\ scored[r1] # Unset
        /\ event[r1] \in events
        /\ event[r1].raw_response = "{streaker, 0.45}"
        /\ event[r1].event_type = "unknown"
        /\ event[r1].intensity = "low"
        /\ scored[r2] # Unset
        /\ event[r2] \in events
        /\ event[r2].raw_response = "{Big Play, 1.50}"
        /\ event[r2].event_type = "big_play"
        /\ event[r2].confidence = 100

IsParseCall == ret # Unset /\ call.fn = "analyze_segment"

\* the payload parsed as a structured object
ParsedObject == IsParseCall /\ call.outcome.kind = "response"
                    /\ call.outcome.json = "object"

PayloadValue(field, default) == Get(call.outcome.data, field, default)

\* C17: once the payload has parsed as an object, normalizing its fields
\* never produces a failure: the result is an event, or the low-confidence
\* discard; an event_type that is unrecognized or no string becomes unknown,
\* such an intensity becomes low, and the confidence is clamped into [0,1],
\* or 0.0 when it is no number.
C17_NormalizationNeverFails ==
    ParsedObject =>
        LET event_type == PayloadValue("event_type", JsonStr("unknown"))
            intensity  == PayloadValue("intensity", JsonStr("low"))
            confidence == PayloadValue("confidence", JsonNum(0))
        IN  /\ ret.success \/ StartsWith(ret.error, "Confidence ")
            /\ ret.raw_response = call.outcome.raw
            /\ ret.event_type \in known_types
            /\ event_type.t # "str" => ret.event_type = "unknown"
            /\ ret.intensity \in {"low", "medium", "high"}
            /\ intensity.t # "str" => ret.intensity = "low"
            /\ 0 <= ret.confidence /\ ret.confidence <= 100
            /\ confidence.t = "null" => ret.confidence = 0

\* the payload parsed as an object and its three fields were normalized
ParsedResult == ParsedObject /\ ret.raw_response = call.outcome.raw

\* C18: a parsed perception result is eligible for scoring (success true)
\* if and only if its clamped confidence is at least 0.4 (0.4 itself is
\* eligible); below 0.4 it is a failure that still carries the normalized
\* event_type and intensity, the summary, the crowd_reaction and the
\* confidence, with a reason citing the threshold and the measured
\* confidence.
C18_EligibleIffConfident ==
    ParsedResult =>
        /\ ret.success <=> ret.confidence >= 40
        /\ ret.event_type =
               _normalize_event_type(
                   PayloadValue("event_type", JsonStr("unknown"))).value
        /\ ret.intensity =
               _normalize_intensity(
                   PayloadValue("intensity", JsonStr("low"))).value
        /\ ret.summary = PayloadValue("summary", "")
        /\ ret.crowd_reaction = PayloadValue("crowd_reaction", "")
        /\ PayloadValue("confidence", JsonNum(0)).t = "num" =>
               ret.confidence =
                   Max(0, Min(100, PayloadValue("confidence", JsonNum(0)).n))
        /\ ~ret.success =>
               /\ Contains(ret.error, "threshold 0.4")
               /\ Contains(ret.error, Fmt2(ret.confidence))
        /\ ret.success => ret.error = None

\* a goal of high intensity with confidence 0.39 came back as a failure
\* that carries the goal and cites 0.39 and the threshold
C18_Witness ==
    /\ ParsedResult
    /\ call.outcome.raw = "{goal, high, 0.39}"
    /\ ~ret.success
    /\ ret.event_type = "goal"
    /\ ret.intensity = "high"
    /\ ret.confidence = 39
    /\ ret.error = "Confidence 0.39 below threshold 0.4"

\* C19: a perception output that does not parse into a structured object
\* (malformed JSON, or JSON that is a list, a bare string or null) yields a
\* failure that carries both the raw response text and an error
\* description, never a successful event.
C19_UnparsableKeepsRawText ==
    (IsParseCall /\ call.outcome.kind = "response"
         /\ call.outcome.json # "object") =>
        /\ ~ret.success
        /\ ~Falsy(ret.error)
        /\ ret.raw_response = call.outcome.raw

\* an accepted upload that has not yet left its finally clause
InProgress(u) == upc[u] \in {"running", "stored", "failed"}

\* C20: under any interleaving of upload_video requests the uploading flag
\* is true exactly while one accepted upload is in progress: at most one
\* upload runs at a time, a request that arrives while the flag is set is
\* rejected (409) without changing the flag or the stored video URI, and the
\* flag is false again after every accepted upload has ended, successfully
\* or not.
C20_UploadingFlag ==
    /\ [](/\ uploading <=> \E u \in Uploads : InProgress(u)
          /\ \A u1, u2 \in Uploads :
                 (InProgress(u1) /\ InProgress(u2)) => u1 = u2)
    /\ [][\A u \in Uploads :
              /\ (upc[u] = "idle" /\ upc'[u] # "idle") =>
                     IF uploading
                     THEN /\ upc'[u] = "rejected"
                          /\ uploading' = uploading
                          /\ video_uri' = video_uri
                     ELSE upc'[u] = "running" /\ uploading'
              /\ (InProgress(u) /\ ~InProgress(u)') =>
                     (~uploading' /\ upc'[u] \in {"done", "error"})
              /\ upc[u] \in {"rejected", "done", "error"} =>
                     upc'[u] = upc[u]
         ]_vars

\* one upload succeeded, one failed, one was rejected while another was in
\* progress, and the flag is down again
C20_Witness ==
    \E u1, u2, u3 \in Uploads :
        /\ upc[u1] = "done"
        /\ upc[u2] = "error"
        /\ upc[u3] = "rejected"
        /\ ~uploading
        /\ video_uri = "files/uploaded"

\* C21: in every reachable state, under any interleaving of analyze_segment
\* and reset_all requests, each stored Ad references an Event that exists in
\* the store, that has generate_ad true and the urgency of the Ad, and no
\* Event has more than one Ad.
C21_AdsReferenceTheirEvent ==
    /\ \A a \in ads :
           \E e \in events :
               /\ e.id = a.event_id
               /\ e.generate_ad
               /\ e.urgency = a.urgency
    /\ \A a1, a2 \in ads : a1.event_id = a2.event_id => a1 = a2

\* C22: after reset_all the stored video URI is empty, and it stays empty
\* until an upload request that started after the reset has finished
\* successfully, also when an upload is in flight while the reset runs: a
\* stored URI was stored by an upload accepted since the last reset.
C22_UriEmptyUntilFreshUpload ==
    video_uri # None =>
        \E u \in since_reset : upc[u] \in {"stored", "done"}

Rejected400(r) == raised[r] = "HTTPException 400"

\* C23: an analyze_segment request that carries no video_uri while no
\* uploaded video URI is stored is rejected with HTTP 400 before any
\* perception or creative call is made, and its rejection leaves the Event
\* store, the Ad store and the upload state unchanged.
C23_RejectedBeforeAnyCall ==
    /\ [](/\ video_uri = None =>
                 \A request_uri \in {None, ""} :
                     ResolveUri(request_uri, video_uri) =
                         [raised |-> "HTTPException 400"]
          /\ \A r \in Requests :
                 Rejected400(r) =>
                     /\ pc[r] = "raised"
                     /\ calls[r] = <<>>
                     /\ analysis[r] = Unset
                     /\ event[r] = Unset
                     /\ ad_result[r] = Unset
                     /\ result[r] = Unset)
    /\ [][\A r \in Requests :
              (~Rejected400(r) /\ Rejected400(r)') =>
                  /\ pc[r] = "idle"
                  /\ video_uri = None
                  /\ UNCHANGED <<events, ads, video_uri, uploading, upc>>
         ]_vars

\* a request without a video_uri was rejected while nothing was uploaded,
\* after another request had stored an Event, which is still there
C23_Witness ==
    \E r1, r2 \in Requests :
        /\ Rejected400(r2)
        /\ calls[r2] = <<>>
        /\ video_uri = None
        /\ event[r1] # Unset
        /\ events = {event[r1]}

====
